---- MODULE Spec2Model ----
(***************************************************************************)
(* Model of youqu_imagecenter_rpc/__init__.py:                             *)
(*   - ImageCenterByRGB: the sliding RGB matcher (random pre-filter and    *)
(*     full pixel verification), specification SpecRGB;                    *)
(*   - ImageCenter: find_image / img_exists over _match_image_by_opencv    *)
(*     (capture, upload, remote match), specifications Spec and FairSpec.  *)
(***************************************************************************)
EXTENDS Integers, Sequences, FiniteSets, TLC

(***************************************************************************)
(* Bounds of the model.                                                    *)
(***************************************************************************)
MaxW == 3
MaxH == 3
MaxTemplatePixels == 2
\* screen pixels times template pixels of an enumerated input
MaxCells == 12

(***************************************************************************)
(* Program constants: random.randrange(10, 20) draws the sample count.     *)
(***************************************************************************)
MinSample == 10
MaxSample == 20

VARIABLES
    \* ---- ImageCenterByRGB.image_center_by_rgb ----
    big,         \* the grabbed screen: [width, height, data]
    small,       \* the template image: [width, height, data]
    rate,        \* <<num, den>>, the rate num/den (dyadic, exact as a float)
    point_list,  \* the sample drawn once: template point -> times drawn
    rgb_pc,      \* "idle" | "sample" | "scan" | "done"
    scan_x,      \* _x of the outer loop
    scan_y,      \* _y of the inner loop
    rgb_result,  \* <<>> (False, or not returned yet) | <<cx, cy>>
    pre_tested,  \* placements on which _pre_random_match was evaluated
    verified,    \* placements on which _check_match was evaluated
    \* ---- ImageCenter: the caller's arguments, conf and the environment ----
    op,                    \* "find_image" | "img_exists" | "get_during" | "idle"
    widget,                \* *widget: the template names, in the given order
    arg_max_match_number,  \* <<>> for None, <<n>> for n
    arg_network_retry,     \* <<>> for None, <<n>> for n
    arg_timeout,           \* <<>> for None, <<n>> for n
    arg_pause,             \* <<>> for None, <<n>> for n
    conf,                  \* conf.MAX_MATCH_NUMBER, NETWORK_RETRY, TIMEOUT, PAUSE
    capture_mode,          \* "picture" | "bbox" | "x11" | "wayland" | "other"
    tpl_file,              \* "exists" | "unresolved" | "absent"
    max_range,             \* get_during: the bound of the capture loop
    screen_time,           \* get_during: the duration of the capture phase
    \* ---- ImageCenter: locals of find_image and _match_image_by_opencv ----
    pc,
    retry_number,
    network_retry,
    timeout,
    pause,
    element,       \* index in widget of the current element (0 before the loop)
    attempt,       \* the index _ of range(retry_number + 1)
    start_time,
    now,           \* time.time()
    locate,        \* "unset" | "empty" | "coord"
    screen_file,   \* the file `screen` names: "absent" | "stale" | "fresh" | "given"
    screen_rb,     \* "unopened" | "open" | "closed"
    template_rb,   \* "unopened" | "open" | "closed"
    result,        \* "none" | "coord" | "True" | "False"
    exc,           \* "none" or the class of the exception that escaped
    exc_args,      \* the names the escaped exception carries
    \* ---- history of the run ----
    captures,      \* screen captures started
    matches,       \* calls of _match_image_by_opencv
    sleeps,        \* calls of time.sleep
    attempts,      \* per element: calls of _match_image_by_opencv
    exhausted,     \* elements whose retry loop ended without a match
    timed_out,     \* elements whose retry loop ended by the timeout break
    capture,       \* the capture of the current attempt: "na" | "ok" | "failed"
    remote_tries,  \* upload-and-match tries of the current call
    conn_failed,   \* a remote call raised OSError
    \* ---- ImageCenter.get_during ----
    pics,          \* the list pics: the index i in the name of each frame
    elapsed_log,   \* history: time.time() - start_time read after each grab
    frame_log,     \* history: the frames handed to _match_image_by_opencv
    frame_res      \* history: the result res tested for each of them

rgb_vars == <<big, small, rate, point_list, rgb_pc, scan_x, scan_y,
              rgb_result, pre_tested, verified>>

arg_vars == <<op, widget, arg_max_match_number, arg_network_retry, arg_timeout,
              arg_pause, conf, capture_mode, tpl_file, max_range, screen_time>>

local_vars == <<pc, retry_number, network_retry, timeout, pause, element, attempt,
                start_time, now, locate, screen_file, screen_rb, template_rb,
                result, exc, exc_args>>

hist_vars == <<captures, matches, sleeps, attempts, exhausted, timed_out, capture,
               remote_tries, conn_failed>>

during_vars == <<pics, elapsed_log, frame_log, frame_res>>

poll_vars == <<arg_vars, local_vars, hist_vars, during_vars>>

vars == <<rgb_vars, poll_vars>>

(***************************************************************************)
(* Images.  PIL's pixel access data[x, y] is a function on                 *)
(* (0..width-1) \X (0..height-1).  The code only compares pixels for       *)
(* equality, so an RGB triple is one of two values.                        *)
(***************************************************************************)
Colours == { 0, 1 }

Pixels(wd, ht) == (0 .. (wd - 1)) \X (0 .. (ht - 1))

ImagesOf(wd, ht) ==
    { [width |-> wd, height |-> ht, data |-> d] : d \in [Pixels(wd, ht) -> Colours] }

ScreenSizes == { d \in (1 .. MaxW) \X (1 .. MaxH) : d[1] * d[2] <= MaxCells }

Screens == UNION { ImagesOf(d[1], d[2]) : d \in ScreenSizes }

TemplatesFor(screen) ==
    UNION { ImagesOf(wd, ht) :
              <<wd, ht>> \in { d \in (1 .. screen.width) \X (1 .. screen.height) :
                                 /\ d[1] * d[2] <= MaxTemplatePixels
                                 /\ d[1] * d[2] * screen.width * screen.height
                                       <= MaxCells } }

\* Scenario A of the spec: a 4x4 screen whose 2x2 block at (0,0) is the
\* template and occurs nowhere else.
ScenarioATemplate ==
    [width |-> 2, height |-> 2, data |-> [p \in Pixels(2, 2) |-> 1]]

ScenarioAScreen ==
    [width |-> 4, height |-> 4,
     data |-> [p \in Pixels(4, 4) |-> IF p[1] < 2 /\ p[2] < 2 THEN 1 ELSE 0]]

\* Scenario D of the spec: a 5x4 screen holding two disjoint 2x2 blocks equal
\* to the template, at (0,1) and at (2,0), both inside the scanned range.
ScenarioDTemplate ==
    [width |-> 2, height |-> 2, data |-> [p \in Pixels(2, 2) |-> 1]]

ScenarioDScreen ==
    [width |-> 5, height |-> 4,
     data |-> [p \in Pixels(5, 4) |->
                 IF \/ (p[1] \in 0 .. 1 /\ p[2] \in 1 .. 2)
                    \/ (p[1] \in 2 .. 3 /\ p[2] \in 0 .. 1)
                 THEN 1 ELSE 0]]

\* Rates exactly representable as floats, so that same / (same + diff) >= rate
\* is the comparison of the fractions.
Rates == { <<1, 2>>, <<1, 1>> }

RateOne == <<1, 1>>

\* the value False returned at line 369
NotFound == <<>>

\* faulty variant of RateGE: the comparison reversed
RateGE_reversed(same, total, r) == same * r[2] <= r[1] * total

RateGE(same, total, r) == same * r[2] >= r[1] * total

(***************************************************************************)
(* _pre_random_point: count = randrange(10, 20) points, each               *)
(* [randrange(0, width), randrange(0, height)].  _pre_random_match only    *)
(* counts over the list, so the list is kept as the number of times each   *)
(* template point was drawn.                                               *)
(***************************************************************************)
RECURSIVE SumOver(_, _)
SumOver(f, S) ==
    IF S = {} THEN 0
    ELSE LET p == CHOOSE q \in S : TRUE
         IN f[p] + SumOver(f, S \ {p})

\* faulty variant of SampleCounts: randrange(20), the lower bound forgotten
SampleCounts_fromzero == 0 .. (MaxSample - 1)

\* random.randrange(10, 20), line 327
SampleCounts == MinSample .. (MaxSample - 1)

PreRandomPoint(tpl) ==
    { f \in [Pixels(tpl.width, tpl.height) -> 0 .. (MaxSample - 1)] :
        SumOver(f, DOMAIN f) \in SampleCounts }

(***************************************************************************)
(* _pre_random_match and _check_match.                                     *)
(***************************************************************************)
PreRandomMatch(x, y, points, bdata, sdata, r) ==
    LET agree == { p \in DOMAIN points : bdata[<<x + p[1], y + p[2]>>] = sdata[p] }
        same  == SumOver(points, agree)
        diff  == SumOver(points, (DOMAIN points) \ agree)
    IN RateGE(same, same + diff, r)

CheckMatch(x, y, tpl, bdata, sdata, r) ==
    LET all  == Pixels(tpl.width, tpl.height)
        same == Cardinality({ p \in all : bdata[<<x + p[1], y + p[2]>>] = sdata[p] })
        diff == Cardinality(all) - same
    IN RateGE(same, same + diff, r)

\* faulty variant of XRange: the bound made inclusive
XRange_inclusive(screen, tpl) == 0 .. (screen.width - tpl.width)

\* range(big.width - small.width) and range(big.height - small.height)
XRange(screen, tpl) == 0 .. (screen.width - tpl.width - 1)

YRange(screen, tpl) == 0 .. (screen.height - tpl.height - 1)

\* faulty variant of Center: the top-left corner is returned
Center_corner(x, y, tpl) == <<x, y>>

\* int(_x + small.width / 2), int(_y + small.height / 2): the float sum is
\* truncated, which for these non-negative values is the integer half.
Center(x, y, tpl) == <<x + (tpl.width \div 2), y + (tpl.height \div 2)>>

(***************************************************************************)
(* image_center_by_rgb                                                     *)
(***************************************************************************)
\* the screen and template are those enumerated, or those of Scenario A
RGBInputs(s, t) ==
    \/ s \in Screens /\ t \in TemplatesFor(s)
    \/ s = ScenarioAScreen /\ t = ScenarioATemplate
    \/ s = ScenarioDScreen /\ t = ScenarioDTemplate

\* ImageCenter is not running
PollIdle ==
    /\ op = "idle"
    /\ widget = <<>>
    /\ arg_max_match_number = <<>>
    /\ arg_network_retry = <<>>
    /\ arg_timeout = <<>>
    /\ arg_pause = <<>>
    /\ conf = <<>>
    /\ capture_mode = "picture"
    /\ tpl_file = "exists"
    /\ pc = "idle"
    /\ retry_number = 0
    /\ network_retry = 0
    /\ timeout = 0
    /\ pause = 0
    /\ element = 0
    /\ attempt = 0
    /\ start_time = 0
    /\ now = 0
    /\ locate = "unset"
    /\ screen_file = "absent"
    /\ screen_rb = "unopened"
    /\ template_rb = "unopened"
    /\ result = "none"
    /\ exc = "none"
    /\ exc_args = <<>>
    /\ captures = 0
    /\ matches = 0
    /\ sleeps = 0
    /\ attempts = <<>>
    /\ exhausted = {}
    /\ timed_out = {}
    /\ capture = "na"
    /\ remote_tries = 0
    /\ conn_failed = FALSE
    /\ max_range = 0
    /\ screen_time = 0
    /\ pics = <<>>
    /\ elapsed_log = <<>>
    /\ frame_log = <<>>
    /\ frame_res = <<>>

InitRGB ==
    /\ RGBInputs(big, small)
    /\ rate \in Rates
    /\ point_list = <<>>
    /\ rgb_pc = "sample"
    /\ scan_x = 0
    /\ scan_y = 0
    /\ rgb_result = NotFound
    /\ pre_tested = {}
    /\ verified = {}
    /\ PollIdle

\* line 363, and the entry of the two loops
SamplePoints ==
    /\ rgb_pc = "sample"
    /\ point_list' \in PreRandomPoint(small)
    /\ IF XRange(big, small) = {} \/ YRange(big, small) = {}
       THEN rgb_pc' = "done" /\ rgb_result' = NotFound
       ELSE rgb_pc' = "scan" /\ rgb_result' = rgb_result
    /\ UNCHANGED <<big, small, rate, scan_x, scan_y, pre_tested, verified>>
    /\ UNCHANGED poll_vars

\* faulty variant of ScanStep: the full verification runs on every placement,
\* the pre-filter is not consulted
ScanStep_nopre ==
    /\ rgb_pc = "scan"
    /\ LET chk == CheckMatch(scan_x, scan_y, small, big.data, small.data, rate)
           lastY == scan_y + 1 \notin YRange(big, small)
           lastX == scan_x + 1 \notin XRange(big, small)
       IN /\ pre_tested' = pre_tested \cup { <<scan_x, scan_y>> }
          /\ verified' = verified \cup { <<scan_x, scan_y>> }
          /\ IF chk
             THEN /\ rgb_pc' = "done"
                  /\ rgb_result' = Center(scan_x, scan_y, small)
                  /\ UNCHANGED <<scan_x, scan_y>>
             ELSE IF lastY /\ lastX
             THEN /\ rgb_pc' = "done"
                  /\ rgb_result' = NotFound
                  /\ UNCHANGED <<scan_x, scan_y>>
             ELSE /\ rgb_pc' = "scan"
                  /\ rgb_result' = rgb_result
                  /\ scan_x' = IF lastY THEN scan_x + 1 ELSE scan_x
                  /\ scan_y' = IF lastY THEN 0 ELSE scan_y + 1
    /\ UNCHANGED <<big, small, rate, point_list>>
    /\ UNCHANGED poll_vars

\* faulty variant of ScanStep: the loops nested the other way round, y outer
\* and x inner
ScanStep_ymajor ==
    /\ rgb_pc = "scan"
    /\ LET pre == PreRandomMatch(scan_x, scan_y, point_list, big.data, small.data, rate)
           chk == pre /\ CheckMatch(scan_x, scan_y, small, big.data, small.data, rate)
           lastY == scan_y + 1 \notin YRange(big, small)
           lastX == scan_x + 1 \notin XRange(big, small)
       IN /\ pre_tested' = pre_tested \cup { <<scan_x, scan_y>> }
          /\ verified' = IF pre THEN verified \cup { <<scan_x, scan_y>> } ELSE verified
          /\ IF chk
             THEN /\ rgb_pc' = "done"
                  /\ rgb_result' = Center(scan_x, scan_y, small)
                  /\ UNCHANGED <<scan_x, scan_y>>
             ELSE IF lastY /\ lastX
             THEN /\ rgb_pc' = "done"
                  /\ rgb_result' = NotFound
                  /\ UNCHANGED <<scan_x, scan_y>>
             ELSE /\ rgb_pc' = "scan"
                  /\ rgb_result' = rgb_result
                  /\ scan_y' = IF lastX THEN scan_y + 1 ELSE scan_y
                  /\ scan_x' = IF lastX THEN 0 ELSE scan_x + 1
    /\ UNCHANGED <<big, small, rate, point_list>>
    /\ UNCHANGED poll_vars

\* one iteration of the inner loop, lines 365-368, and the loop advance
ScanStep ==
    /\ rgb_pc = "scan"
    /\ LET pre == PreRandomMatch(scan_x, scan_y, point_list, big.data, small.data, rate)
           chk == pre /\ CheckMatch(scan_x, scan_y, small, big.data, small.data, rate)
           lastY == scan_y + 1 \notin YRange(big, small)
           lastX == scan_x + 1 \notin XRange(big, small)
       IN /\ pre_tested' = pre_tested \cup { <<scan_x, scan_y>> }
          /\ verified' = IF pre THEN verified \cup { <<scan_x, scan_y>> } ELSE verified
          /\ IF chk
             THEN /\ rgb_pc' = "done"
                  /\ rgb_result' = Center(scan_x, scan_y, small)
                  /\ UNCHANGED <<scan_x, scan_y>>
             ELSE IF lastY /\ lastX
             THEN /\ rgb_pc' = "done"
                  /\ rgb_result' = NotFound
                  /\ UNCHANGED <<scan_x, scan_y>>
             ELSE /\ rgb_pc' = "scan"
                  /\ rgb_result' = rgb_result
                  /\ scan_x' = IF lastY THEN scan_x + 1 ELSE scan_x
                  /\ scan_y' = IF lastY THEN 0 ELSE scan_y + 1
    /\ UNCHANGED <<big, small, rate, point_list>>
    /\ UNCHANGED poll_vars

NextRGB ==
    \/ SamplePoints
    \/ ScanStep

SpecRGB == InitRGB /\ [][NextRGB]_vars

(***************************************************************************)
(* ImageCenter.find_image, img_exists and _match_image_by_opencv           *)
(***************************************************************************)
\* bounds of the polling model
MaxTemplates == 2
MaxMatchNumber == 2
MaxDelay == 1

\* the values the caller may pass and conf may hold
ArgMaxMatchNumbers == { <<>> } \cup { <<n>> : n \in (0 - 2) .. MaxMatchNumber }

ArgNetworkRetries == { <<>>, <<0 - 1>>, <<2>> }

ArgTimeouts == { <<>>, <<1>> }

ArgPauses == { <<>>, <<2>> }

Confs ==
    [MAX_MATCH_NUMBER : {0, 1}, NETWORK_RETRY : {1}, TIMEOUT : {3}, PAUSE : {1}]

CaptureModes == { "picture", "bbox", "x11", "wayland", "other" }

TemplateFiles == { "exists", "unresolved", "absent" }

Widgets == { [i \in 1 .. k |-> i] : k \in 0 .. MaxTemplates }

\* the rate of find_image after the default of lines 182-183: 1.0 and 1.5
FindImageRates == { <<1, 1>>, <<3, 2>> }

\* `a if a else d`, lines 173-176: None and 0 are both falsy
OrDefault(a, d) == IF a # <<>> /\ a[1] # 0 THEN a[1] ELSE d

\* faulty variant of RetryNumberInvalid: only numbers below -1 are rejected
RetryNumberInvalid_lax(n) == n < 0 - 1

\* line 179
RetryNumberInvalid(n) == n < 0

\* faulty variant of Located: the test inverted
Located_inverted(l) == l # "coord"

\* `if not locate` is false, line 197
Located(l) == l = "coord"

\* faulty variant of TimedOut: the time is measured from the start of the call
TimedOut_global(end_time, start, limit) == end_time > limit

\* line 202
TimedOut(end_time, start, limit) == end_time - start > limit

\* faulty variant of MoreAttempts: one iteration too many
MoreAttempts_extra(i, retries) == i + 1 <= retries + 1

\* the loop of line 187 has another iteration after iteration i
MoreAttempts(i, retries) == i + 1 < retries + 1

\* faulty variant of TemplateElementNotFoundArgs: only the last element is named
TemplateElementNotFoundArgs_last(w) == IF w = <<>> THEN w ELSE <<w[Len(w)]>>

\* TemplateElementNotFound(*widget), lines 32-39 and 204
TemplateElementNotFoundArgs(w) == w

\* faulty variant of ImgExistsCatches: the handler catches nothing
ImgExistsCatches_never(e) == FALSE

\* faulty variant of ImgExistsCatches: a broad except
ImgExistsCatches_broad(e) == TRUE

\* except TemplateElementNotFound, line 244
ImgExistsCatches(e) == e = "TemplateElementNotFound"

Terminal == pc \in { "returned", "raised" }

InitPoll ==
    /\ op \in { "find_image", "img_exists" }
    /\ conf \in Confs
    /\ capture_mode \in CaptureModes
    /\ tpl_file \in TemplateFiles
    /\ IF op = "find_image"
       THEN /\ widget \in Widgets
            /\ arg_max_match_number \in ArgMaxMatchNumbers
            /\ arg_network_retry \in ArgNetworkRetries
            /\ arg_timeout \in ArgTimeouts
            /\ arg_pause \in ArgPauses
       ELSE \* img_exists: find_image(widget, rate=rate), line 242
            /\ widget = <<1>>
            /\ capture_mode \in { "x11", "wayland", "other" }
            /\ arg_max_match_number = <<>>
            /\ arg_network_retry = <<>>
            /\ arg_timeout = <<>>
            /\ arg_pause = <<>>
    /\ pc = "call"
    /\ retry_number = 0
    /\ network_retry = 0
    /\ timeout = 0
    /\ pause = 0
    /\ element = 0
    /\ attempt = 0
    /\ start_time = 0
    /\ now = 0
    /\ locate = "unset"
    \* conf.SCREEN_CACHE may be left over from an earlier run
    /\ screen_file \in IF capture_mode = "picture" THEN { "given" }
                        ELSE IF capture_mode = "x11" THEN { "absent", "stale" }
                        ELSE { "absent" }
    /\ screen_rb = "unopened"
    /\ template_rb = "unopened"
    /\ result = "none"
    /\ exc = "none"
    /\ exc_args = <<>>
    /\ captures = 0
    /\ matches = 0
    /\ sleeps = 0
    /\ attempts = [i \in DOMAIN widget |-> 0]
    /\ exhausted = {}
    /\ timed_out = {}
    /\ capture = "na"
    /\ remote_tries = 0
    /\ conn_failed = FALSE
    /\ max_range = 0
    /\ screen_time = 0
    /\ pics = <<>>
    /\ elapsed_log = <<>>
    /\ frame_log = <<>>
    /\ frame_res = <<>>
    /\ big = <<>>
    /\ small = <<>>
    /\ rate \in FindImageRates
    /\ point_list = <<>>
    /\ rgb_pc = "idle"
    /\ scan_x = 0
    /\ scan_y = 0
    /\ rgb_result = NotFound
    /\ pre_tested = {}
    /\ verified = {}

\* An exception e leaves find_image (its `except Exception: raise exc`, lines
\* 205-206, re-raises it; a BaseException passes) and, under img_exists,
\* meets the handler of lines 244-246.
Raise(e, names) ==
    IF op = "img_exists" /\ ImgExistsCatches(e)
    THEN pc' = "returned" /\ result' = "False" /\ exc' = exc /\ exc_args' = exc_args
    ELSE pc' = "raised" /\ exc' = e /\ exc_args' = names /\ result' = result

\* find_image returns locate (line 200); img_exists returns bool of it (242)
Return(l) ==
    /\ pc' = "returned"
    /\ result' = IF op = "img_exists" THEN "True" ELSE l
    /\ UNCHANGED <<exc, exc_args>>

\* lines 173-183
FindImageEnter ==
    /\ pc = "call"
    /\ network_retry' = OrDefault(arg_network_retry, conf.NETWORK_RETRY)
    /\ pause' = OrDefault(arg_pause, conf.PAUSE)
    /\ timeout' = OrDefault(arg_timeout, conf.TIMEOUT)
    /\ retry_number' = OrDefault(arg_max_match_number, conf.MAX_MATCH_NUMBER)
    /\ IF RetryNumberInvalid(retry_number')
       THEN Raise("ValueError", <<>>)
       ELSE pc' = "for_element" /\ UNCHANGED <<result, exc, exc_args>>
    /\ UNCHANGED <<element, attempt, start_time, now, locate, screen_file,
                   screen_rb, template_rb>>
    /\ UNCHANGED <<arg_vars, hist_vars, rgb_vars, during_vars>>

\* lines 185-186, and line 204 when the elements are used up
ForElement ==
    /\ pc = "for_element"
    /\ IF element < Len(widget)
       THEN /\ element' = element + 1
            /\ start_time' = now
            /\ attempt' = 0
            /\ pc' = "attempt"
            /\ UNCHANGED <<result, exc, exc_args>>
       ELSE /\ Raise("TemplateElementNotFound", TemplateElementNotFoundArgs(widget))
            /\ UNCHANGED <<element, start_time, attempt>>
    /\ UNCHANGED <<retry_number, network_retry, timeout, pause, now, locate,
                   screen_file, screen_rb, template_rb>>
    /\ UNCHANGED <<arg_vars, hist_vars, rgb_vars, during_vars>>

\* What one capture can do, lines 87-106.
\*   "ok":      the screen file is written by this attempt;
\*   "swallow": X11 only, EasyProcessError is caught and dropped (95-96);
\*   "empty":   Wayland only, the dbus call prints no path, screen = "";
\*   "raise":   pyscreenshot raises anything else.
CaptureOutcomes(mode) ==
    IF mode = "x11" THEN { "ok", "swallow", "raise" }
    ELSE IF mode = "wayland" THEN { "ok", "empty" }
    ELSE { "ok", "raise" }

\* the call of _match_image_by_opencv at line 188, up to line 106
Capture ==
    /\ pc = "attempt"
    /\ matches' = matches + 1
    /\ attempts' = [attempts EXCEPT ![element] = @ + 1]
    /\ remote_tries' = 0
    /\ screen_rb' = "unopened"
    /\ template_rb' = "unopened"
    /\ IF capture_mode = "picture"
       THEN /\ screen_file' = "given"
            /\ capture' = "na"
            /\ pc' = "open"
            /\ UNCHANGED <<captures, result, exc, exc_args>>
       ELSE IF capture_mode = "bbox"
       THEN \* cls.save_temporary_picture is not an attribute of ImageCenter
            /\ Raise("AttributeError", <<>>)
            /\ capture' = "na"
            /\ UNCHANGED <<captures, screen_file>>
       ELSE /\ captures' = captures + 1
            /\ \E o \in CaptureOutcomes(capture_mode) :
                 CASE o = "ok" ->
                        /\ screen_file' = "fresh"
                        /\ capture' = "ok"
                        /\ pc' = "open"
                        /\ UNCHANGED <<result, exc, exc_args>>
                   [] o = "swallow" ->
                        /\ screen_file' = IF screen_file = "fresh" THEN "stale"
                                          ELSE screen_file
                        /\ capture' = "failed"
                        /\ pc' = "open"
                        /\ UNCHANGED <<result, exc, exc_args>>
                   [] o = "empty" ->
                        /\ screen_file' = "absent"
                        /\ capture' = "failed"
                        /\ pc' = "open"
                        /\ UNCHANGED <<result, exc, exc_args>>
                   [] o = "raise" ->
                        /\ Raise("CaptureError", <<>>)
                        /\ capture' = "failed"
                        /\ UNCHANGED screen_file
    /\ UNCHANGED <<retry_number, network_retry, timeout, pause, element, attempt,
                   start_time, now, locate>>
    /\ UNCHANGED <<sleeps, exhausted, timed_out, conn_failed>>
    /\ UNCHANGED <<arg_vars, rgb_vars, during_vars>>

\* lines 108-127: the template path is resolved, then both files are opened
OpenFiles ==
    /\ pc = "open"
    /\ IF tpl_file = "unresolved"
       THEN /\ Raise("ValueError", <<>>)
            /\ UNCHANGED <<screen_rb, template_rb>>
       ELSE IF screen_file = "absent"
       THEN /\ Raise("FileNotFoundError", <<>>)
            /\ UNCHANGED <<screen_rb, template_rb>>
       ELSE IF tpl_file = "absent"
       THEN /\ Raise("FileNotFoundError", <<>>)
            /\ screen_rb' = "open"
            /\ UNCHANGED template_rb
       ELSE /\ pc' = "remote"
            /\ screen_rb' = "open"
            /\ template_rb' = "open"
            /\ UNCHANGED <<result, exc, exc_args>>
    /\ UNCHANGED <<retry_number, network_retry, timeout, pause, element, attempt,
                   start_time, now, locate, screen_file>>
    /\ UNCHANGED <<arg_vars, hist_vars, rgb_vars, during_vars>>

\* What the three remote calls of one try can do, lines 130-136: an OSError
\* at the first upload, at the second upload or at the match; any other
\* exception of the server (an xmlrpc Fault); a result, found or empty.
RemoteOutcomes ==
    { "put_screen_oserror", "put_template_oserror", "match_oserror", "fault",
      "found", "empty" }

\* lines 128-140: the first iteration of range(network_retry + 1) returns or
\* raises; with no iteration at all the function falls off its end (None)
Remote ==
    /\ pc = "remote"
    /\ IF network_retry + 1 <= 0
       THEN /\ locate' = "empty"
            /\ pc' = "after_match"
            /\ UNCHANGED <<now, screen_rb, template_rb, result, exc, exc_args,
                           remote_tries, conn_failed>>
       ELSE /\ remote_tries' = remote_tries + 1
            /\ \E o \in RemoteOutcomes, d \in 0 .. MaxDelay :
                 \* the clock is read again only after a result (line 201)
                 /\ now' = IF o \in { "found", "empty" } THEN now + d ELSE now
                 /\ screen_rb' = IF o = "put_screen_oserror" THEN "open" ELSE "closed"
                 /\ template_rb' = IF o \in { "put_screen_oserror", "put_template_oserror" }
                                   THEN "open" ELSE "closed"
                 /\ IF o \in { "put_screen_oserror", "put_template_oserror",
                               "match_oserror" }
                    THEN /\ Raise("EnvironmentError", <<>>)
                         /\ conn_failed' = TRUE
                         /\ UNCHANGED locate
                    ELSE IF o = "fault"
                    THEN /\ Raise("Fault", <<>>)
                         /\ UNCHANGED <<locate, conn_failed>>
                    ELSE /\ locate' = IF o = "found" THEN "coord" ELSE "empty"
                         /\ pc' = "after_match"
                         /\ UNCHANGED <<result, exc, exc_args, conn_failed>>
    /\ UNCHANGED <<retry_number, network_retry, timeout, pause, element, attempt,
                   start_time, screen_file>>
    /\ UNCHANGED <<captures, matches, sleeps, attempts, exhausted, timed_out, capture>>
    /\ UNCHANGED <<arg_vars, rgb_vars, during_vars>>

\* lines 197-200: return the match, or sleep int(pause)
AfterMatch ==
    /\ pc = "after_match"
    /\ IF Located(locate)
       THEN /\ Return(locate)
            /\ UNCHANGED <<now, sleeps>>
       ELSE /\ sleeps' = sleeps + 1
            /\ now' = now + pause
            /\ pc' = "check_timeout"
            /\ UNCHANGED <<result, exc, exc_args>>
    /\ UNCHANGED <<retry_number, network_retry, timeout, pause, element, attempt,
                   start_time, locate, screen_file, screen_rb, template_rb>>
    /\ UNCHANGED <<captures, matches, attempts, exhausted, timed_out, capture,
                   remote_tries, conn_failed>>
    /\ UNCHANGED <<arg_vars, rgb_vars, during_vars>>

\* lines 201-203 and the advance of the loop of line 187
CheckTimeout ==
    /\ pc = "check_timeout"
    /\ IF TimedOut(now, start_time, timeout)
       THEN /\ pc' = "for_element"
            /\ timed_out' = timed_out \cup { element }
            /\ exhausted' = exhausted \cup { element }
            /\ UNCHANGED attempt
       ELSE IF MoreAttempts(attempt, retry_number)
       THEN /\ pc' = "attempt"
            /\ attempt' = attempt + 1
            /\ UNCHANGED <<timed_out, exhausted>>
       ELSE /\ pc' = "for_element"
            /\ exhausted' = exhausted \cup { element }
            /\ UNCHANGED <<attempt, timed_out>>
    /\ UNCHANGED <<retry_number, network_retry, timeout, pause, element,
                   start_time, now, locate, screen_file, screen_rb, template_rb,
                   result, exc, exc_args>>
    /\ UNCHANGED <<captures, matches, sleeps, attempts, capture, remote_tries,
                   conn_failed>>
    /\ UNCHANGED <<arg_vars, rgb_vars, during_vars>>

Next ==
    \/ FindImageEnter
    \/ ForElement
    \/ Capture
    \/ OpenFiles
    \/ Remote
    \/ AfterMatch
    \/ CheckTimeout

Spec == InitPoll /\ [][Next]_vars

\* find_image is one sequential call: whatever step is enabled is taken
FairSpec == Spec /\ WF_vars(Next)

(***************************************************************************)
(* ImageCenter.get_during                                                  *)
(***************************************************************************)
\* bound of the capture loop in the model
MaxRange == 3

\* the default of the parameter network_retry of _match_image_by_opencv
DefaultNetworkRetry == 1

ScreenTimes == { 1, 2 }

DuringPauses == { <<>>, <<1>> }

\* faulty variant of ScreenTimeReached: the duration has to be exceeded
ScreenTimeReached_strict(end_time, start, limit) == end_time - start > limit

\* line 282
ScreenTimeReached(end_time, start, limit) == end_time - start >= limit

\* pyscreenshot.grab().save(pic_name), line 281: the frame is stored, or the
\* grab raises
GrabOutcomes == { "ok", "raise" }

InitDuring ==
    /\ op = "get_during"
    /\ widget = <<1>>
    /\ arg_max_match_number = <<>>
    /\ arg_network_retry = <<>>
    /\ arg_timeout = <<>>
    /\ arg_pause \in DuringPauses
    /\ conf \in Confs
    \* every match is given a stored frame as picture_abspath
    /\ capture_mode = "picture"
    /\ tpl_file \in TemplateFiles
    /\ max_range \in 0 .. MaxRange
    /\ screen_time \in ScreenTimes
    /\ pc = "call"
    /\ retry_number = 0
    /\ network_retry = 0
    /\ timeout = 0
    /\ pause = 0
    \* image_path is the only template
    /\ element = 1
    /\ attempt = 0
    /\ start_time = 0
    /\ now = 0
    /\ locate = "unset"
    /\ screen_file = "absent"
    /\ screen_rb = "unopened"
    /\ template_rb = "unopened"
    /\ result = "none"
    /\ exc = "none"
    /\ exc_args = <<>>
    /\ captures = 0
    /\ matches = 0
    /\ sleeps = 0
    /\ attempts = [i \in DOMAIN widget |-> 0]
    /\ exhausted = {}
    /\ timed_out = {}
    /\ capture = "na"
    /\ remote_tries = 0
    /\ conn_failed = FALSE
    /\ pics = <<>>
    /\ elapsed_log = <<>>
    /\ frame_log = <<>>
    /\ frame_res = <<>>
    /\ big = <<>>
    /\ small = <<>>
    /\ rate = RateOne
    /\ point_list = <<>>
    /\ rgb_pc = "idle"
    /\ scan_x = 0
    /\ scan_y = 0
    /\ rgb_result = NotFound
    /\ pre_tested = {}
    /\ verified = {}

\* lines 273-277: the directory is made anew, pics = [], the clock is read
GetDuringEnter ==
    /\ op = "get_during"
    /\ pc = "call"
    /\ pics' = <<>>
    /\ start_time' = now
    /\ pause' = OrDefault(arg_pause, 0)
    /\ pc' = "grab"
    /\ UNCHANGED <<retry_number, network_retry, timeout, element, attempt, now,
                   locate, screen_file, screen_rb, template_rb, result, exc,
                   exc_args>>
    /\ UNCHANGED <<elapsed_log, frame_log, frame_res>>
    /\ UNCHANGED <<arg_vars, hist_vars, rgb_vars>>

\* lines 278-285: the head of the loop over range(max_range) and one
\* iteration of it
GetDuringGrab ==
    /\ pc = "grab"
    /\ IF Len(pics) >= max_range
       THEN /\ pc' = "pics_check"
            /\ UNCHANGED <<pics, elapsed_log, now, captures, sleeps, capture,
                           result, exc, exc_args>>
       ELSE /\ pics' = Append(pics, Len(pics))
            /\ captures' = captures + 1
            /\ \E o \in GrabOutcomes, d \in 0 .. MaxDelay :
                 IF o = "raise"
                 THEN /\ Raise("CaptureError", <<>>)
                      /\ capture' = "failed"
                      /\ UNCHANGED <<elapsed_log, now, sleeps>>
                 ELSE /\ capture' = "ok"
                      /\ elapsed_log' = Append(elapsed_log, now + d - start_time)
                      /\ UNCHANGED <<result, exc, exc_args>>
                      /\ IF ScreenTimeReached(now + d, start_time, screen_time)
                         THEN /\ pc' = "pics_check"
                              /\ now' = now + d
                              /\ UNCHANGED sleeps
                         ELSE /\ pc' = "grab"
                              /\ now' = now + d + pause
                              /\ sleeps' = IF pause # 0 THEN sleeps + 1 ELSE sleeps
    /\ UNCHANGED <<retry_number, network_retry, timeout, pause, element, attempt,
                   start_time, locate, screen_file, screen_rb, template_rb>>
    /\ UNCHANGED <<matches, attempts, exhausted, timed_out, remote_tries, conn_failed>>
    /\ UNCHANGED <<frame_log, frame_res>>
    /\ UNCHANGED <<arg_vars, rgb_vars>>

\* lines 286-287
GetDuringPicsCheck ==
    /\ pc = "pics_check"
    /\ IF pics = <<>>
       THEN Raise("ValueError", <<>>)
       ELSE pc' = "next_pic" /\ UNCHANGED <<result, exc, exc_args>>
    /\ UNCHANGED <<retry_number, network_retry, timeout, pause, element, attempt,
                   start_time, now, locate, screen_file, screen_rb, template_rb>>
    /\ UNCHANGED <<arg_vars, hist_vars, rgb_vars, during_vars>>

\* lines 288-291: the next stored frame is handed to _match_image_by_opencv;
\* line 294 when the frames are used up.  Len(frame_log) frames were handed
\* over so far.
GetDuringNextPic ==
    /\ pc = "next_pic"
    /\ IF Len(frame_log) < Len(pics)
       THEN /\ frame_log' = Append(frame_log, pics[Len(frame_log) + 1])
            /\ network_retry' = DefaultNetworkRetry
            /\ pc' = "attempt"
            /\ UNCHANGED <<result, exc, exc_args>>
       ELSE /\ Raise("TemplateElementNotFound", TemplateElementNotFoundArgs(widget))
            /\ UNCHANGED <<frame_log, network_retry>>
    /\ UNCHANGED <<retry_number, timeout, pause, element, attempt, start_time, now,
                   locate, screen_file, screen_rb, template_rb>>
    /\ UNCHANGED <<pics, elapsed_log, frame_res>>
    /\ UNCHANGED <<arg_vars, hist_vars, rgb_vars>>

\* lines 292-293: `if res: return res`
GetDuringAfterMatch ==
    /\ op = "get_during"
    /\ pc = "after_match"
    /\ frame_res' = Append(frame_res, locate)
    /\ IF Located(locate)
       THEN Return(locate)
       ELSE pc' = "next_pic" /\ UNCHANGED <<result, exc, exc_args>>
    /\ UNCHANGED <<retry_number, network_retry, timeout, pause, element, attempt,
                   start_time, now, locate, screen_file, screen_rb, template_rb>>
    /\ UNCHANGED <<pics, elapsed_log, frame_log>>
    /\ UNCHANGED <<arg_vars, hist_vars, rgb_vars>>

NextDuring ==
    \/ GetDuringEnter
    \/ GetDuringGrab
    \/ GetDuringPicsCheck
    \/ GetDuringNextPic
    \/ Capture
    \/ OpenFiles
    \/ Remote
    \/ GetDuringAfterMatch

SpecDuring == InitDuring /\ [][NextDuring]_vars

(***************************************************************************)
(* Properties of image_center_by_rgb (specification SpecRGB)               *)
(***************************************************************************)
\* the template is pixel-identical to the screen region at (x0, y0)
Identical(x0, y0) ==
    \A p \in Pixels(small.width, small.height) :
        big.data[<<x0 + p[1], y0 + p[2]>>] = small.data[p]

\* the placements at which the template lies fully inside the screen
InsidePlacements ==
    (0 .. (big.width - small.width)) \X (0 .. (big.height - small.height))

\* the placements of the two loops, and the order in which they are visited
ScannedPlacements ==
    (0 .. (big.width - small.width - 1)) \X (0 .. (big.height - small.height - 1))

ScansBefore(a, b) == a[1] < b[1] \/ (a[1] = b[1] /\ a[2] < b[2])

RGBDone == rgb_pc = "done"

\* C1 as stated: with rate = 1.0, every placement at which the template lies
\* fully inside the screen and is pixel-identical to it has its center
\* returned, whatever sample was drawn.
C1_EveryIdenticalPlacementReturned ==
    (RGBDone /\ rate = RateOne) =>
        \A pl \in InsidePlacements :
            Identical(pl[1], pl[2]) => rgb_result = Center(pl[1], pl[2], small)

\* C1 amended: with rate = 1.0 the result is the center of the first
\* placement, in scan order, among the pixel-identical placements with
\* x0 < screen.width - template.width and y0 < screen.height - template.height,
\* whatever sample was drawn, and False when there is none; the 4x4 screen of
\* Scenario A yields (1,1).
C1_FirstScannedIdenticalPlacementReturned ==
    (RGBDone /\ rate = RateOne) =>
        LET cands == { pl \in ScannedPlacements : Identical(pl[1], pl[2]) }
        IN /\ cands = {} => rgb_result = NotFound
           /\ \A pl \in cands :
                (\A other \in cands : other = pl \/ ScansBefore(pl, other))
                    => rgb_result = Center(pl[1], pl[2], small)
           /\ (big = ScenarioAScreen /\ small = ScenarioATemplate)
                    => rgb_result = <<1, 1>>

\* C1 witness: Scenario A has run to its end at rate 1.0 and returned (1,1).
C1_Witness ==
    /\ RGBDone
    /\ rate = RateOne
    /\ big = ScenarioAScreen
    /\ small = ScenarioATemplate
    /\ Identical(0, 0)
    /\ rgb_result = <<1, 1>>

\* C10: when the template is as wide (or as high) as the screen no placement
\* is tested by the pre-filter or the verification and the result is False,
\* even for a template identical to the screen; no placement with
\* x >= screen.width - template.width or y >= screen.height - template.height
\* is ever tested or returned.
C10_ExclusiveBound ==
    (rgb_pc # "idle") =>
        /\ (small.width = big.width \/ small.height = big.height) =>
              /\ pre_tested = {}
              /\ verified = {}
              /\ RGBDone => rgb_result = NotFound
        /\ \A pl \in pre_tested \cup verified :
              /\ pl[1] < big.width - small.width
              /\ pl[2] < big.height - small.height
        /\ rgb_result # NotFound =>
              \E pl \in verified :
                 /\ rgb_result = Center(pl[1], pl[2], small)
                 /\ pl[1] < big.width - small.width
                 /\ pl[2] < big.height - small.height

\* C10 witness: a template identical to the whole screen, scanned to the end.
C10_Witness ==
    /\ RGBDone
    /\ point_list # <<>>
    /\ small.width = big.width
    /\ small.height = big.height
    /\ Identical(0, 0)
    /\ pre_tested = {}
    /\ rgb_result = NotFound

(***************************************************************************)
(* Properties of find_image and img_exists (specifications Spec, FairSpec) *)
(***************************************************************************)
NotFoundRaised == pc = "raised" /\ exc = "TemplateElementNotFound"

\* C2 as stated: when no attempt matches and the timeout is never exceeded,
\* find_image called with maxAttempts = N >= 0 (N = 0 included) makes exactly
\* N + 1 attempts on each template before it raises the not-found error.
C2_ExactlyNPlusOneAttempts ==
    ( /\ op = "find_image"
      /\ NotFoundRaised
      /\ arg_max_match_number # <<>>
      /\ arg_max_match_number[1] >= 0
      /\ timed_out = {} )
        => \A k \in DOMAIN widget : attempts[k] = arg_max_match_number[1] + 1

\* C3: a negative maxAttempts makes find_image raise ValueError before any
\* capture, match attempt or sleep.
C3_NegativeRejectedBeforeAnyWork ==
    ( /\ op = "find_image"
      /\ arg_max_match_number # <<>>
      /\ arg_max_match_number[1] < 0 )
        => /\ captures = 0
           /\ matches = 0
           /\ sleeps = 0
           /\ pc \in { "call", "raised" }
           /\ pc = "raised" => exc = "ValueError"

\* C3 witness: find_image(max_match_number=-1) has raised.
C3_Witness ==
    /\ op = "find_image"
    /\ arg_max_match_number = <<0 - 1>>
    /\ widget # <<>>
    /\ pc = "raised"
    /\ exc = "ValueError"
    /\ captures = 0

\* C4: the templates are tried in the given order, template k+1 only after
\* every attempt on template k was unsuccessful; the first successful attempt
\* is returned at once, with no further capture, match attempt or sleep and
\* no attempt on a later template.
C4_InOrderFirstMatchReturned ==
    /\ [](pc # "idle" =>
            /\ \A k \in DOMAIN widget :
                  /\ attempts[k] > 0 =>
                        \A j \in 1 .. (k - 1) : attempts[j] > 0 /\ j \in exhausted
                  /\ k > element => attempts[k] = 0
                  /\ k \in exhausted => k < element \/ (k = element /\ locate # "coord")
            /\ (pc = "returned" /\ result # "False") =>
                  /\ locate = "coord"
                  /\ result = IF op = "img_exists" THEN "True" ELSE "coord"
                  /\ element \notin exhausted
                  /\ sleeps = matches - 1)
    /\ [][locate = "coord" =>
            /\ pc' = "returned"
            /\ captures' = captures
            /\ matches' = matches
            /\ sleeps' = sleeps
            /\ attempts' = attempts]_vars

\* C4 witness: the second template matched after the first was given up.
C4_Witness ==
    /\ op = "find_image"
    /\ pc = "returned"
    /\ result = "coord"
    /\ element = 2
    /\ attempts[1] > 1
    /\ attempts[2] > 1

\* C5: for a valid maxAttempts, find_image ends with TemplateElementNotFound
\* if and only if the retry loop of every template of the sequence ended
\* without a match (attempts used up, or the timeout break); the error then
\* names all templates of the sequence, and it is never raised after a
\* successful attempt.
C5_NotFoundIffAllExhausted ==
    (op = "find_image" /\ Terminal /\ retry_number >= 0) =>
        /\ NotFoundRaised <=> exhausted = DOMAIN widget
        /\ \A k \in exhausted :
              /\ attempts[k] >= 1
              /\ attempts[k] = retry_number + 1 \/ k \in timed_out
        /\ NotFoundRaised =>
              /\ exc_args = widget
              /\ locate # "coord"
              /\ result = "none"
              /\ sleeps = matches
        /\ locate = "coord" => ~NotFoundRaised

\* C5 witness: two templates, given up one by the timeout and one by the
\* attempt count.
C5_Witness ==
    /\ op = "find_image"
    /\ NotFoundRaised
    /\ Len(widget) = 2
    /\ timed_out # {}
    /\ timed_out # exhausted
    /\ exc_args = widget

\* C6: every run of find_image with a valid maxAttempts ends, returned or
\* raised and never both; a template is given up at the first check at which
\* its attempts are used up or its timeout is exceeded, never makes more than
\* maxAttempts + 1 attempts, and nothing happens after the end.
C6_TerminatesOnce ==
    /\ <>Terminal
    /\ [](retry_number >= 0 =>
            /\ \A k \in DOMAIN attempts : attempts[k] <= retry_number + 1
            /\ \A k \in exhausted : attempts[k] = retry_number + 1 \/ k \in timed_out
            /\ \A k \in timed_out : k \in exhausted)
    /\ [](Terminal =>
            \/ pc = "returned" /\ result # "none" /\ exc = "none"
            \/ pc = "raised" /\ result = "none" /\ exc # "none")
    /\ [][(pc = "check_timeout" /\ (now - start_time > timeout
                                     \/ attempts[element] = retry_number + 1))
            => (pc' = "for_element" /\ element \in exhausted'
                  /\ matches' = matches)]_vars
    /\ [][~Terminal]_vars

\* C6 witness: a run that ended after a template was given up by the timeout
\* and another by the attempt count.
C6_Witness ==
    /\ Terminal
    /\ Len(widget) = 2
    /\ exhausted = {1, 2}
    /\ timed_out = {2}
    /\ attempts[1] = retry_number + 1
    /\ retry_number >= 1

\* C7 as stated: a failed capture is treated as an unsuccessful match: it
\* does not abort find_image, and no remote match is run in an attempt whose
\* capture failed.
C7_CaptureFailureIsAnUnsuccessfulAttempt ==
    capture = "failed" => (pc # "raised" /\ remote_tries = 0)

\* C8: a connection failure of the remote service is never an empty result:
\* the call raises EnvironmentError, find_image does not sleep or retry after
\* it and does not raise TemplateElementNotFound, img_exists does not return
\* False.
C8_ConnectionFailureDistinct ==
    /\ [](conn_failed =>
            /\ pc = "raised"
            /\ exc = "EnvironmentError"
            /\ result = "none"
            /\ locate # "coord")
    /\ [][(pc = "remote" /\ conn_failed') =>
            /\ sleeps' = sleeps
            /\ matches' = matches
            /\ locate' = locate
            /\ pc' = "raised"]_vars
    /\ [][~conn_failed]_vars

\* C8 witness: img_exists met a connection failure on its second attempt.
C8_Witness ==
    /\ op = "img_exists"
    /\ conn_failed
    /\ matches = 2
    /\ pc = "raised"

\* C9 as stated: the connection error is raised only after
\* network_retry + 1 failed tries of the upload-and-match call.
C9_RetriedNetworkRetryTimes ==
    (pc = "raised" /\ exc = "EnvironmentError") => remote_tries = network_retry + 1

(***************************************************************************)
(* Further properties of image_center_by_rgb (specification SpecRGB)       *)
(***************************************************************************)
\* the rates compared by C11, in ascending order
ComparedRates == << <<0, 1>>, <<1, 4>>, <<1, 2>>, <<3, 4>>, <<1, 1>> >>

RateLE(a, b) == a[1] * b[2] <= b[1] * a[2]

\* placement pl passes the pre-filter on the drawn sample and the full
\* verification at rate r
Accepted(pl, r) ==
    /\ CheckMatch(pl[1], pl[2], small, big.data, small.data, r)
    /\ PreRandomMatch(pl[1], pl[2], point_list, big.data, small.data, r)

\* C11: with the screen, template, placement and sample fixed, a placement
\* accepted at rate r is accepted at every rate r' <= r (the compared rates
\* form a chain, so each rate is compared with the next lower one).  A run
\* that found a match has an accepted placement at its own rate, hence at
\* every lower rate; a run that found none has no accepted placement at its
\* own rate, hence at no higher rate.
C11_MonotoneInRate ==
    RGBDone =>
        /\ \A i \in 1 .. (Len(ComparedRates) - 1) :
              RateLE(ComparedRates[i], ComparedRates[i + 1])
        /\ \E i \in DOMAIN ComparedRates : ComparedRates[i] = rate
        /\ \A pl \in ScannedPlacements : \A i \in 1 .. (Len(ComparedRates) - 1) :
              Accepted(pl, ComparedRates[i + 1]) => Accepted(pl, ComparedRates[i])
        /\ rgb_result # NotFound => \E pl \in ScannedPlacements : Accepted(pl, rate)
        /\ rgb_result = NotFound => \A pl \in ScannedPlacements : ~Accepted(pl, rate)

\* C11 witness: a match was found at rate 1/2 at a placement that is not
\* accepted at rate 1.
C11_Witness ==
    /\ RGBDone
    /\ rate = <<1, 2>>
    /\ rgb_result # NotFound
    /\ \E pl \in ScannedPlacements :
          /\ rgb_result = Center(pl[1], pl[2], small)
          /\ Accepted(pl, <<1, 2>>)
          /\ ~Accepted(pl, RateOne)

\* two placements of the template that share no screen pixel
Disjoint(a, b) ==
    \/ a[1] + small.width <= b[1]
    \/ b[1] + small.width <= a[1]
    \/ a[2] + small.height <= b[2]
    \/ b[2] + small.height <= a[2]

\* pairs of disjoint scanned placements at both of which the screen region is
\* identical to the template
TwoIdenticalBlocks ==
    { pq \in ScannedPlacements \X ScannedPlacements :
        /\ ScansBefore(pq[1], pq[2])
        /\ Disjoint(pq[1], pq[2])
        /\ Identical(pq[1][1], pq[1][2])
        /\ Identical(pq[2][1], pq[2][2]) }

\* the centers a finished call has returned
ReturnedCenters == IF rgb_result = NotFound THEN {} ELSE { rgb_result }

DuringErrorFree ==
    /\ capture # "failed"
    /\ tpl_file = "exists"
    /\ ~conn_failed
    /\ exc # "Fault"

\* the capture loop is over
CapturingOver == pc \notin { "call", "grab" }

\* every stored frame was matched and none of them matched
NoStoredFrameMatches ==
    frame_res = [i \in 1 .. Len(pics) |-> "empty"]

\* C13 as stated: get_during captures at least one and at most max_range
\* frames, and raises TemplateElementNotFound exactly when no stored frame
\* matches (runs in which a capture, the template file or the server fails
\* are left aside).
C13_AtLeastOneFrameCaptured ==
    (Terminal /\ DuringErrorFree) =>
        /\ Len(pics) >= 1
        /\ Len(pics) <= max_range
        /\ (exc = "TemplateElementNotFound") <=> NoStoredFrameMatches

\* C13 amended: get_during captures first and matches afterwards; with
\* max_range >= 1 it stores between 1 and max_range frames and stops after the
\* first capture at which the elapsed time has reached screen_time; with
\* max_range <= 0 it stores none and raises ValueError without matching.
\* The stored frames are matched in capture order, the first result that is
\* not empty is returned and no later frame is matched, and
\* TemplateElementNotFound is raised exactly when there are stored frames,
\* all were matched and none matched.
C13_CaptureThenMatchInOrder ==
    /\ matches > 0 => (CapturingOver /\ pc # "pics_check")
    /\ captures = Len(pics)
    /\ Len(pics) <= (IF max_range > 0 THEN max_range ELSE 0)
    /\ (CapturingOver /\ capture # "failed" /\ max_range >= 1) => Len(pics) >= 1
    /\ (Terminal /\ max_range <= 0) =>
          (captures = 0 /\ matches = 0 /\ pc = "raised" /\ exc = "ValueError")
    /\ \A i \in 1 .. (Len(elapsed_log) - 1) : elapsed_log[i] < screen_time
    /\ (CapturingOver /\ capture # "failed" /\ pics # <<>>) =>
          \/ elapsed_log[Len(elapsed_log)] >= screen_time
          \/ Len(pics) = max_range
    /\ Len(frame_log) <= Len(pics)
    /\ frame_log = SubSeq(pics, 1, Len(frame_log))
    /\ pics = [i \in 1 .. Len(pics) |-> i - 1]
    /\ matches = Len(frame_log) - (IF pc = "attempt" THEN 1 ELSE 0)
    /\ \A i \in 1 .. Len(frame_res) :
          frame_res[i] = "coord" =>
             /\ i = Len(frame_res)
             /\ i = Len(frame_log)
             /\ pc = "returned"
             /\ result = "coord"
    /\ pc = "returned" =>
          (frame_res # <<>> /\ frame_res[Len(frame_res)] = "coord")
    /\ (pc = "raised" /\ exc = "TemplateElementNotFound") <=>
          (Terminal /\ pics # <<>> /\ NoStoredFrameMatches)

\* C13 witness: three frames were stored, the second matched and was
\* returned, the third was never matched.
C13_Witness ==
    /\ op = "get_during"
    /\ pc = "returned"
    /\ Len(pics) = 3
    /\ frame_log = <<0, 1>>
    /\ frame_res = <<"empty", "coord">>
    /\ result = "coord"

(***************************************************************************)
(* Further properties of find_image and img_exists (specification Spec)    *)
(***************************************************************************)
\* the rate r lies in [0, 1]
RateInRange(r) == 0 <= r[1] /\ r[1] <= r[2]

\* C14: find_image called with a rate outside [0, 1] is rejected before any
\* work: it performs no capture and no match attempt.
C14_OutOfRangeRateRejected ==
    (op = "find_image" /\ ~RateInRange(rate)) =>
        (captures = 0 /\ matches = 0 /\ pc \in { "call", "raised" })

\* find_image came to line 204: every element's retry loop ended without a
\* match
FindImageNotFound ==
    /\ element = Len(widget)
    /\ exhausted = DOMAIN widget
    /\ ~Located(locate)
    /\ pc \in { "returned", "raised" }

\* C15: img_exists returns True exactly when find_image returned a match,
\* returns False (raising nothing) exactly when find_image ended with
\* TemplateElementNotFound, and never lets TemplateElementNotFound escape.
C15_ImgExistsTrueFalse ==
    op = "img_exists" =>
        /\ (result = "True") <=> (pc = "returned" /\ Located(locate))
        /\ (result = "False") <=> (pc = "returned" /\ FindImageNotFound)
        /\ FindImageNotFound => (pc = "returned" /\ exc = "none")
        /\ exc # "TemplateElementNotFound"
        /\ pc = "returned" => result \in { "True", "False" }

\* C15 witness: the only template was tried, never matched, and img_exists
\* returned False.
C15_Witness ==
    /\ op = "img_exists"
    /\ pc = "returned"
    /\ result = "False"
    /\ matches >= 2
    /\ exc = "none"

\* C16: find_image sleeps only after an unsuccessful attempt whose elapsed
\* time has not exceeded the timeout and that is followed by another attempt
\* on the same template.  pc = "check_timeout" is the state right after the
\* sleep of line 198; the clock stood at now - pause when the sleep began.
C16_SleepOnlyBeforeAnotherAttempt ==
    pc = "check_timeout" =>
        /\ ~TimedOut(now - pause, start_time, timeout)
        /\ MoreAttempts(attempt, retry_number)

\* the steps in which find_image takes up the next template
StartsTemplate == element' # element

\* the steps in which a retry loop is left by the timeout break
BreaksOnTimeout == timed_out' # timed_out

\* C17: the timeout is measured from the start of the current template and
\* starts afresh with each template; a timeout ends the attempts of the
\* current template only; and every template is attempted at least once
\* unless an earlier one matched (or an exception ended the call), however
\* much time the earlier templates took.
C17_TimeoutPerTemplate ==
    /\ [][StartsTemplate =>
            /\ element' = element + 1
            /\ start_time' = now
            /\ now' = now
            /\ attempt' = 0
            /\ attempts[element'] = 0]_vars
    /\ [][~StartsTemplate => start_time' = start_time]_vars
    /\ [][BreaksOnTimeout =>
            /\ now - start_time > timeout
            /\ timed_out' = timed_out \cup { element }
            /\ element' = element
            /\ pc' = "for_element"]_vars
    /\ [][(pc = "check_timeout" /\ now - start_time <= timeout) =>
            (timed_out' = timed_out /\
             (MoreAttempts(attempt, retry_number) => pc' = "attempt"))]_vars
    /\ [](\A k \in DOMAIN widget :
            /\ (k < element \/ (k = element /\ pc = "for_element")) =>
                  (attempts[k] >= 1 /\ k \in exhausted)
            /\ k > element => attempts[k] = 0)
    /\ [](NotFoundRaised => \A k \in DOMAIN widget : attempts[k] >= 1)

\* C17 witness: the first template timed out; the second began when the time
\* since the call already exceeded the timeout, and got two attempts.
C17_Witness ==
    /\ op = "find_image"
    /\ element = 2
    /\ 1 \in timed_out
    /\ start_time > timeout
    /\ attempts[2] = 2

(***************************************************************************)
(* Further properties of image_center_by_rgb (specification SpecRGB)       *)
(***************************************************************************)
\* the scanned placements passing both phases at the rate of the call, on
\* the sample of the call
AcceptedPlacements == { pl \in ScannedPlacements : Accepted(pl, rate) }

\* pl and the placements scanned before it
ScannedUpTo(pl) ==
    { q \in ScannedPlacements : q = pl \/ ScansBefore(q, pl) }

\* C18: the sample is drawn once and reused; the result is the center of the
\* first scanned placement (x outer, y inner) that passes the pre-filter on
\* that sample and the full verification, the scan stopping there; the full
\* verification is evaluated on exactly the tested placements that passed the
\* pre-filter; and the result is False exactly when no scanned placement
\* passes both.
C18_FirstAcceptedPlacement ==
    /\ [][rgb_pc # "sample" => point_list' = point_list]_vars
    /\ [](rgb_pc \in { "scan", "done" } =>
            /\ pre_tested \subseteq ScannedPlacements
            /\ verified =
                  { pl \in pre_tested :
                      PreRandomMatch(pl[1], pl[2], point_list, big.data,
                                     small.data, rate) })
    /\ [](RGBDone =>
            /\ (rgb_result = NotFound) <=> (AcceptedPlacements = {})
            /\ AcceptedPlacements = {} => pre_tested = ScannedPlacements
            /\ AcceptedPlacements # {} =>
                  \E f \in AcceptedPlacements :
                     /\ \A g \in AcceptedPlacements : g = f \/ ScansBefore(f, g)
                     /\ rgb_result = Center(f[1], f[2], small)
                     /\ pre_tested = ScannedUpTo(f))

\* C18 witness: a match was returned after an earlier placement had passed
\* the pre-filter and failed the full verification.
C18_Witness ==
    /\ RGBDone
    /\ rgb_result # NotFound
    /\ \E pl \in verified :
          ~CheckMatch(pl[1], pl[2], small, big.data, small.data, rate)
    /\ Cardinality(pre_tested) >= 2

\* the placements whose pixels are read in the current state: those tested
\* so far and the one the loops stand at
PlacementsRead ==
    pre_tested \cup (IF rgb_pc = "scan" THEN { <<scan_x, scan_y>> } ELSE {})

\* C20: once the sample is drawn it holds between 10 and 19 points, each
\* inside the template; every screen pixel read for a placement, sampled or
\* in the full comparison, lies inside the screen; and the two ratios have
\* the non-zero denominators len(point_list) and width * height.
C20_ReadsInBounds ==
    (rgb_pc \in { "scan", "done" }) =>
        /\ small.width >= 1 /\ small.height >= 1
        /\ small.width <= big.width /\ small.height <= big.height
        /\ DOMAIN point_list = Pixels(small.width, small.height)
        /\ \A p \in DOMAIN point_list :
              /\ point_list[p] >= 0
              /\ 0 <= p[1] /\ p[1] < small.width
              /\ 0 <= p[2] /\ p[2] < small.height
        /\ LET count == SumOver(point_list, DOMAIN point_list)
           IN count >= MinSample /\ count < MaxSample /\ count # 0
        /\ small.width * small.height # 0
        /\ \A pl \in PlacementsRead : \A p \in Pixels(small.width, small.height) :
              /\ 0 <= pl[1] + p[1] /\ pl[1] + p[1] < big.width
              /\ 0 <= pl[2] + p[2] /\ pl[2] + p[2] < big.height
              /\ <<pl[1] + p[1], pl[2] + p[2]>> \in DOMAIN big.data

\* C20 witness: with a sample of 19 points the loops stand at the last
\* scanned placement, three placements having been read before it.
C20_Witness ==
    /\ rgb_pc = "scan"
    /\ SumOver(point_list, DOMAIN point_list) = MaxSample - 1
    /\ Cardinality(pre_tested) = 3
    /\ scan_x >= 1
    /\ scan_x = big.width - small.width - 1
    /\ scan_y = big.height - small.height - 1

(***************************************************************************)
(* File handles of _match_image_by_opencv (specification Spec)             *)
(***************************************************************************)
\* the call of _match_image_by_opencv of the current attempt is over
MatchCallOver ==
    pc \in { "after_match", "check_timeout", "for_element", "returned", "raised" }

\* C19: when _match_image_by_opencv exits, by a return or by an exception,
\* neither the screen handle nor the template handle is left open.
C19_HandlesReleasedOnExit ==
    MatchCallOver => (screen_rb # "open" /\ template_rb # "open")

====
